---- MODULE Spec2Model ----
(***************************************************************************)
(* EduPulse: the rule-based student success predictor.                     *)
(*                                                                         *)
(* Numbers.  The program computes in binary floating point; the model      *)
(* computes the same quantities exactly, as integers in fixed units:       *)
(*   raw inputs (attendance, hours)   tenths            85.0  -> 850       *)
(*   factor scores                    1/One             1.0   -> One       *)
(*   weights                          hundredths        0.25  -> 25        *)
(*   weighted totals                  1/(One*100)                          *)
(*   success probabilities            1/Scale4          0.6144 -> 6144     *)
(*   numbers before sanitize_inputs   hundredths        84.95 -> 8495      *)
(* Where the exact value does not decide what the floating-point program   *)
(* does (a total exactly half way between two 4-decimal numbers, two       *)
(* impacts that are equal as exact products of different operands), the    *)
(* outcome is taken from the variable fp, which is fixed arbitrarily at    *)
(* the start of a behaviour.  The same holds for the total of the          *)
(* simulator (fp.sim_up) and for a number half way between two tenths in   *)
(* sanitize_inputs (fp.half_up).                                           *)
(***************************************************************************)
EXTENDS Integers, Sequences, FiniteSets, TLC

VARIABLES
    self_weights,  \* the predictor's self.weights, set by its constructor
    profile,     \* the StudentProfile handed to predict
    fp,          \* floating-point rounding outcomes the exact model leaves open
    prediction,  \* the dictionary predict returned, or None
    score,       \* the argument of a direct determine_risk_level call
    risk,        \* the dictionary that call returned, or None
    sim_improvements,  \* the improvements dictionary of the simulator
    simulated,   \* current_score and new_score of the simulator, or None
    raw,         \* the raw record (keyword arguments) of the input form
    sanitized,   \* what sanitize_inputs returned for raw, or None
    resanitized, \* what sanitize_inputs returned for sanitized, or None
    validation,  \* the pair validate_student_inputs returned, or None
    created,     \* the pair create_student_profile returned, or None
    warnings,    \* the list check_for_anomalies returned (in a record), or None
    rendered,    \* what render_recommendations has put on the page, or None
    session_state  \* st.session_state: prediction_history, current_prediction

sim_vars == <<sim_improvements, simulated>>

app_vars == <<rendered, session_state>>

input_vars == <<raw, sanitized, resanitized, validation, created, warnings>>

vars == <<self_weights, profile, fp, prediction, score, risk, sim_vars, input_vars,
          app_vars>>

None == [none |-> TRUE]

(***************************************************************************)
(* Bounds of the model.                                                    *)
(***************************************************************************)
\* interior sample points taken between the normalisation bounds of each
\* continuous input
Samples == 1

\* entries of the improvements dictionary handed to the simulator
MaxImprovements == 2

\* fields of a raw record that are missing or hold a value that is not valid
MaxFaults == 2

\* the number of clicks on the prediction button in a session
MaxClicks == 11

(***************************************************************************)
(* Units.                                                                  *)
(***************************************************************************)
\* a factor score of 1.0: a common multiple of the normalisation
\* denominators (400, 70, 60 tenths) and of 10 (the categorical scores)
One == 400 * 21

\* round(x, 4): success probabilities are multiples of 1/10000
Scale4 == 10000

\* n as a raw input value (tenths)
T(n) == n * 10

\* n/10 as a factor score
Tenths(n) == n * (One \div 10)

(***************************************************************************)
(* config.py                                                               *)
(***************************************************************************)
\* a mutant: peer_influence has no weight
Mutant_WEIGHTS_incomplete ==
    [academic_factors |-> [attendance |-> 25, study_hours |-> 20, previous_grades |-> 15],
     wellness_factors |-> [sleep_hours |-> 15, mental_health |-> 10, extracurricular |-> 5],
     support_factors  |-> [family_support |-> 5, financial_status |-> 5]]

Mutant_WEIGHTS ==
    [academic_factors |-> [attendance |-> 30, study_hours |-> 20, previous_grades |-> 15],
     wellness_factors |-> [sleep_hours |-> 15, mental_health |-> 10, extracurricular |-> 5],
     support_factors  |-> [family_support |-> 5, financial_status |-> 3, peer_influence |-> 2]]

WEIGHTS ==
    [academic_factors |-> [attendance |-> 25, study_hours |-> 20, previous_grades |-> 15],
     wellness_factors |-> [sleep_hours |-> 15, mental_health |-> 10, extracurricular |-> 5],
     support_factors  |-> [family_support |-> 5, financial_status |-> 3, peer_influence |-> 2]]

\* iteration order of WEIGHTS (a dict keeps insertion order)
WEIGHTS_order == <<"academic_factors", "wellness_factors", "support_factors">>

\* the copy of the weight table built by app.py's predictor
app_weights ==
    [academic_factors |-> [attendance |-> 25, study_hours |-> 20, previous_grades |-> 15],
     wellness_factors |-> [sleep_hours |-> 15, mental_health |-> 10, extracurricular |-> 5],
     support_factors  |-> [family_support |-> 5, financial_status |-> 3, peer_influence |-> 2]]

SCORE_MAPPINGS ==
    [family_support   |-> ("Low" :> Tenths(3) @@ "Medium" :> Tenths(7) @@ "High" :> Tenths(10)),
     extracurricular  |-> ("None" :> Tenths(3) @@ "Moderate" :> Tenths(7) @@ "High" :> Tenths(10)),
     previous_grades  |-> ("Poor" :> Tenths(2) @@ "Average" :> Tenths(5) @@ "Good" :> Tenths(8)
                           @@ "Excellent" :> Tenths(10)),
     financial_status |-> ("Struggling" :> Tenths(3) @@ "Stable" :> Tenths(7)
                           @@ "Comfortable" :> Tenths(10)),
     mental_health    |-> ("Poor" :> Tenths(2) @@ "Fair" :> Tenths(5) @@ "Good" :> Tenths(8)
                           @@ "Excellent" :> Tenths(10)),
     peer_influence   |-> ("Negative" :> Tenths(2) @@ "Neutral" :> Tenths(5)
                           @@ "Positive" :> Tenths(10))]

\* RISK_LEVELS in its iteration order; min and max in units of 1/Scale4.  The
\* symbol that begins a label is written by its code point in braces.
RISK_LEVELS ==
    << [key |-> "HIGH_RISK", min |-> 0, max |-> 4000, label |-> "{U+1F7E5} High Risk",
        color |-> "#FF6B6B", description |-> "Needs immediate intervention"],
       [key |-> "MODERATE_RISK", min |-> 4000, max |-> 7000, label |-> "{U+1F7E8} Moderate Risk",
        color |-> "#FFD166", description |-> "Requires monitoring and support"],
       [key |-> "AT_RISK", min |-> 7000, max |-> 8500, label |-> "{U+1F7E7} At Risk",
        color |-> "#FFA726", description |-> "Below target, needs improvement"],
       [key |-> "SUCCESS", min |-> 8500, max |-> 10000, label |-> "{U+1F7E9} Success",
        color |-> "#06D6A0", description |-> "On track for academic success"] >>

(***************************************************************************)
(* models/predictor.py                                                     *)
(***************************************************************************)
\* the keys of the dictionary calculate_factor_scores builds, in the order
\* it inserts them
FactorOrder ==
    <<"attendance", "study_hours", "sleep_hours", "family_support", "extracurricular",
      "previous_grades", "financial_status", "mental_health", "peer_influence">>

Factors == {FactorOrder[i] : i \in 1..Len(FactorOrder)}

\* a mutant: the upper clamp is missing
Mutant_normalize_noclamp(value, min_val, max_val) ==
    IF value <= min_val THEN 0
    ELSE ((value - min_val) * One) \div (max_val - min_val)

\* a mutant: divides by max_val instead of the width of the interval
Mutant_normalize_width(value, min_val, max_val) ==
    IF value <= min_val THEN 0
    ELSE IF value >= max_val THEN One
    ELSE ((value - min_val) * One) \div max_val

\* a mutant: the two clamp results are swapped at the top
Mutant_normalize_top(value, min_val, max_val) ==
    IF value <= min_val THEN 0
    ELSE IF value >= max_val THEN 0
    ELSE ((value - min_val) * One) \div (max_val - min_val)

normalize_continuous_value(value, min_val, max_val) ==
    IF value <= min_val THEN 0
    ELSE IF value >= max_val THEN One
    ELSE ((value - min_val) * One) \div (max_val - min_val)

\* a mutant: study_hours normalised over [0, 8]
Mutant_calculate_factor_scores(p) ==
    [f \in Factors |->
        CASE f = "attendance"  -> normalize_continuous_value(p.attendance, T(60), T(100))
          [] f = "study_hours" -> normalize_continuous_value(p.study_hours, T(0), T(8))
          [] f = "sleep_hours" -> normalize_continuous_value(p.sleep_hours, T(4), T(10))
          [] OTHER             -> SCORE_MAPPINGS[f][p[f]]]

calculate_factor_scores(p) ==
    [f \in Factors |->
        CASE f = "attendance"  -> normalize_continuous_value(p.attendance, T(60), T(100))
          [] f = "study_hours" -> normalize_continuous_value(p.study_hours, T(1), T(8))
          [] f = "sleep_hours" -> normalize_continuous_value(p.sleep_hours, T(4), T(10))
          [] OTHER             -> SCORE_MAPPINGS[f][p[f]]]

\* total_score before rounding, in units of 1/(One*100)
total_score(factor_scores, w) ==
      factor_scores["attendance"] * w["academic_factors"]["attendance"]
    + factor_scores["study_hours"] * w["academic_factors"]["study_hours"]
    + factor_scores["previous_grades"] * w["academic_factors"]["previous_grades"]
    + factor_scores["sleep_hours"] * w["wellness_factors"]["sleep_hours"]
    + factor_scores["mental_health"] * w["wellness_factors"]["mental_health"]
    + factor_scores["extracurricular"] * w["wellness_factors"]["extracurricular"]
    + factor_scores["family_support"] * w["support_factors"]["family_support"]
    + factor_scores["financial_status"] * w["support_factors"]["financial_status"]
    + factor_scores["peer_influence"] * w["support_factors"]["peer_influence"]

\* the number of total units in one unit of the rounded result
Round4Div == (One * 100) \div Scale4

\* whether an exact total lies half way between two 4-decimal numbers
IsTie(total) == 2 * (total % Round4Div) = Round4Div

\* round(total_score, 4): the 4-decimal numbers the rounding can give.  The
\* float total carries a binary rounding error, so an exact half can go
\* either way.
round4_outcomes(total) ==
    LET q == total \div Round4Div
        r == total % Round4Div
    IN  IF 2 * r < Round4Div THEN {q}
        ELSE IF 2 * r > Round4Div THEN {q + 1}
        ELSE {q, q + 1}

\* round(total_score, 4) in this behaviour: an exact half goes as fp.up says
round4(total) ==
    LET outcomes == round4_outcomes(total)
    IN  IF fp.up THEN CHOOSE x \in outcomes : \A y \in outcomes : x >= y
        ELSE CHOOSE x \in outcomes : \A y \in outcomes : x <= y

\* a mutant: the peer_influence term is missing
Mutant_calculate_weighted_score(factor_scores) ==
    round4(total_score([factor_scores EXCEPT !["peer_influence"] = 0], self_weights))

calculate_weighted_score(factor_scores) ==
    round4(total_score(factor_scores, self_weights))

UNKNOWN(s) ==
    [level |-> "UNKNOWN", label |-> "{U+2753} Unknown", color |-> "#6C757D",
     description |-> "Unable to determine risk level", score |-> s]

determine_risk_level(s) ==
    LET matching == SelectSeq(RISK_LEVELS, LAMBDA l : l.min <= s /\ s < l.max)
    IN  IF matching # <<>>
        THEN LET level_info == Head(matching)
             IN  [level |-> level_info.key, label |-> level_info.label,
                  color |-> level_info.color, description |-> level_info.description,
                  score |-> s]
        ELSE UNKNOWN(s)

\* the weight of a factor: the first category of self.weights that has it,
\* else 0
weight_of(factor) ==
    LET having == SelectSeq(WEIGHTS_order, LAMBDA c : factor \in DOMAIN self_weights[c])
    IN  IF having = <<>> THEN 0 ELSE self_weights[Head(having)][factor]

\* score * weight as the float product: three times the exact product (units
\* of 1/(One*300)) plus fp.ulp, the rank 0..2 of the float product among the
\* products that are equal when computed exactly
impact_of(factor, s, weight) == 3 * s * weight + fp.ulp[factor]

\* list.sort(key=..., reverse=True) on one more element: x goes behind every
\* element whose key is not smaller (the sort is stable)
insert_desc(x, sorted) ==
    LET n == Cardinality({i \in 1..Len(sorted) : sorted[i][3] >= x[3]})
    IN  SubSeq(sorted, 1, n) \o <<x>> \o SubSeq(sorted, n + 1, Len(sorted))

RECURSIVE sort_desc(_)
sort_desc(impacts) ==
    IF impacts = <<>> THEN <<>>
    ELSE insert_desc(impacts[Len(impacts)], sort_desc(SubSeq(impacts, 1, Len(impacts) - 1)))

\* the (factor, score, impact) triples in the order of factor_scores.items()
impacts_of(factor_scores) ==
    [i \in 1..Len(FactorOrder) |->
        LET factor == FactorOrder[i]
        IN  <<factor, factor_scores[factor],
              impact_of(factor, factor_scores[factor], weight_of(factor))>>]

\* a mutant: the sort is ascending
Mutant_identify_key_factors(factor_scores) ==
    LET sorted == sort_desc(impacts_of(factor_scores))
        n == Len(sorted)
    IN  [i \in 1..3 |-> sorted[n + 1 - i]]

identify_key_factors(factor_scores) ==
    LET sorted == sort_desc(impacts_of(factor_scores))
    IN  SubSeq(sorted, 1, 3)

predict(p) ==
    LET factor_scores == calculate_factor_scores(p)
        success_probability == calculate_weighted_score(factor_scores)
    IN  [success_probability |-> success_probability,
         risk_assessment |-> determine_risk_level(success_probability),
         factor_scores |-> factor_scores,
         top_factors |-> identify_key_factors(factor_scores),
         profile |-> p]

(***************************************************************************)
(* utils/calculations.py: the intervention simulator.                      *)
(***************************************************************************)
\* improvements.get(factor, 0): improvements is a dictionary from some of the
\* factors to deltas, in units of 1/One
get(improvements, factor) ==
    IF factor \in DOMAIN improvements THEN improvements[factor] ELSE 0

\* a mutant: the new factor score is not capped
Mutant_new_factor_score_uncapped(current_score, improvement) ==
    current_score + improvement

\* a mutant: the new factor score is kept within [0, 1] on both sides
Mutant_new_factor_score_floored(current_score, improvement) ==
    IF current_score + improvement > One THEN One
    ELSE IF current_score + improvement < 0 THEN 0
    ELSE current_score + improvement

\* min(1.0, current_score + improvement)
new_factor_score(current_score, improvement) ==
    IF current_score + improvement < One THEN current_score + improvement ELSE One

\* the weight the simulator finds for a factor: the first category of the
\* WEIGHTS table that has it, else 0.  The table is the dictionary the
\* predictor holds as self.weights.
impact_weight(factor) ==
    LET having == SelectSeq(WEIGHTS_order, LAMBDA c : factor \in DOMAIN self_weights[c])
    IN  IF having = <<>> THEN 0 ELSE self_weights[Head(having)][factor]

\* the sum after the first n items of factor_scores.items(), in units of
\* 1/(One*100)
RECURSIVE accumulate(_, _, _)
accumulate(factor_scores, improvements, n) ==
    IF n = 0 THEN 0
    ELSE LET factor == FactorOrder[n]
         IN  accumulate(factor_scores, improvements, n - 1)
             + new_factor_score(factor_scores[factor], get(improvements, factor))
               * impact_weight(factor)

\* round(new_score, 4).  The simulator adds the nine products in the order of
\* factor_scores.items(), the predictor in the order of its weight
\* categories: the two float sums of the same exact total can differ in the
\* last bits, so an exact half goes as fp.sim_up says here, independently of
\* fp.up.
round4_sim(total) ==
    LET outcomes == round4_outcomes(total)
    IN  IF fp.sim_up THEN CHOOSE x \in outcomes : \A y \in outcomes : x >= y
        ELSE CHOOSE x \in outcomes : \A y \in outcomes : x <= y

estimate_intervention_impact(factor_scores, improvements) ==
    round4_sim(accumulate(factor_scores, improvements, Len(FactorOrder)))

(***************************************************************************)
(* utils/validators.py.  A raw record (the keyword arguments) is a         *)
(* function from its keys to values; numbers are in tenths.  An error      *)
(* message is a record of the text of its format string and the values     *)
(* formatted into it.                                                      *)
(***************************************************************************)
Range(seq) == {seq[i] : i \in 1..Len(seq)}

required_fields ==
    <<"attendance", "study_hours", "sleep_hours",
      "family_support", "extracurricular", "previous_grades",
      "financial_status", "mental_health", "peer_influence">>

valid_values ==
    [family_support |-> <<"Low", "Medium", "High">>,
     extracurricular |-> <<"None", "Moderate", "High">>,
     previous_grades |-> <<"Poor", "Average", "Good", "Excellent">>,
     financial_status |-> <<"Struggling", "Stable", "Comfortable">>,
     mental_health |-> <<"Poor", "Fair", "Good", "Excellent">>,
     peer_influence |-> <<"Negative", "Neutral", "Positive">>]

\* the keys of valid_values in the order of its items()
valid_values_order ==
    <<"family_support", "extracurricular", "previous_grades",
      "financial_status", "mental_health", "peer_influence">>

\* f"Missing required field: {field}"
MissingMessage(field) == [text |-> "Missing required field: {field}", field |-> field]

AttendanceMessage == [text |-> "Attendance must be between 0 and 100%"]
StudyHoursMessage == [text |-> "Study hours must be between 0 and 24"]
SleepHoursMessage == [text |-> "Sleep hours must be between 0 and 24"]

\* f"{field.replace('_', ' ').title()} must be one of: {', '.join(valid_options)}"
OptionsMessage(field, valid_options) ==
    [text |-> "{field.replace('_', ' ').title()} must be one of: {', '.join(valid_options)}",
     field |-> field, valid_options |-> valid_options]

\* a mutant: the message names the first required field, missing or not
Mutant_check_required(kwargs) ==
    IF \E i \in 1..Len(required_fields) : required_fields[i] \notin DOMAIN kwargs
    THEN MissingMessage(required_fields[1])
    ELSE None

\* the loop over required_fields: the message it returns with, or None
check_required(kwargs) ==
    LET missing == SelectSeq(required_fields, LAMBDA field : field \notin DOMAIN kwargs)
    IN  IF missing # <<>> THEN MissingMessage(Head(missing)) ELSE None

\* a mutant: the upper bounds are exclusive
Mutant_check_ranges(kwargs) ==
    IF ~(0 <= kwargs["attendance"] /\ kwargs["attendance"] < T(100))
    THEN AttendanceMessage
    ELSE IF ~(0 <= kwargs["study_hours"] /\ kwargs["study_hours"] < T(24))
    THEN StudyHoursMessage
    ELSE IF ~(0 <= kwargs["sleep_hours"] /\ kwargs["sleep_hours"] < T(24))
    THEN SleepHoursMessage
    ELSE None

\* the three range tests: the message they return with, or None
check_ranges(kwargs) ==
    IF ~(0 <= kwargs["attendance"] /\ kwargs["attendance"] <= T(100))
    THEN AttendanceMessage
    ELSE IF ~(0 <= kwargs["study_hours"] /\ kwargs["study_hours"] <= T(24))
    THEN StudyHoursMessage
    ELSE IF ~(0 <= kwargs["sleep_hours"] /\ kwargs["sleep_hours"] <= T(24))
    THEN SleepHoursMessage
    ELSE None

\* a mutant: the last categorical field is not tested
Mutant_check_categories(kwargs) ==
    LET tested == SubSeq(valid_values_order, 1, Len(valid_values_order) - 1)
        invalid == SelectSeq(tested,
                       LAMBDA field : kwargs[field] \notin Range(valid_values[field]))
    IN  IF invalid # <<>>
        THEN OptionsMessage(Head(invalid), valid_values[Head(invalid)])
        ELSE None

\* the loop over valid_values: the message it returns with, or None
check_categories(kwargs) ==
    LET invalid == SelectSeq(valid_values_order,
                       LAMBDA field : kwargs[field] \notin Range(valid_values[field]))
    IN  IF invalid # <<>>
        THEN OptionsMessage(Head(invalid), valid_values[Head(invalid)])
        ELSE None

\* a mutant: the categorical values are tested before the ranges
Mutant_validate_student_inputs(kwargs) ==
    IF check_required(kwargs) # None
    THEN [is_valid |-> FALSE, error_message |-> check_required(kwargs)]
    ELSE IF check_categories(kwargs) # None
    THEN [is_valid |-> FALSE, error_message |-> check_categories(kwargs)]
    ELSE IF check_ranges(kwargs) # None
    THEN [is_valid |-> FALSE, error_message |-> check_ranges(kwargs)]
    ELSE [is_valid |-> TRUE, error_message |-> None]

\* the pair (is_valid, error_message)
validate_student_inputs(kwargs) ==
    IF check_required(kwargs) # None
    THEN [is_valid |-> FALSE, error_message |-> check_required(kwargs)]
    ELSE IF check_ranges(kwargs) # None
    THEN [is_valid |-> FALSE, error_message |-> check_ranges(kwargs)]
    ELSE IF check_categories(kwargs) # None
    THEN [is_valid |-> FALSE, error_message |-> check_categories(kwargs)]
    ELSE [is_valid |-> TRUE, error_message |-> None]

\* StudentProfile(**kwargs): the dataclass takes exactly its nine fields and
\* raises a TypeError on any other keyword
StudentProfile(kwargs) ==
    IF DOMAIN kwargs = Range(required_fields)
    THEN [raised |-> FALSE, instance |-> kwargs]
    ELSE [raised |-> TRUE,
          e |-> [text |-> "StudentProfile.__init__() got an unexpected keyword argument"]]

\* a mutant: the dataclass is built without validation
Mutant_create_student_profile(kwargs) ==
    [profile |-> kwargs, error |-> None]

\* the pair (profile, error)
create_student_profile(kwargs) ==
    LET checked == validate_student_inputs(kwargs)
    IN  IF ~checked.is_valid
        THEN [profile |-> None, error |-> checked.error_message]
        ELSE IF ~StudentProfile(kwargs).raised
        THEN [profile |-> StudentProfile(kwargs).instance, error |-> None]
        ELSE [profile |-> None,
              error |-> [text |-> "Error creating profile: {str(e)}",
                         e |-> StudentProfile(kwargs).e]]

(***************************************************************************)
(* utils/validators.py: sanitize_inputs.  The numbers of a record that is  *)
(* not yet sanitised are in hundredths; a string is the sequence of its    *)
(* characters.  The characters of the model are the ASCII letters, the     *)
(* space, the hyphen, U+01F0 (small j with caron, a lowercase letter       *)
(* whose title case is the two characters J, U+030C) and U+030C (the       *)
(* combining caron, a mark that is not a cased character).                 *)
(***************************************************************************)
\* n as a number that is not yet sanitised (hundredths)
H(n) == n * 100

LowerCase ==
    <<"a", "b", "c", "d", "e", "f", "g", "h", "i", "j", "k", "l", "m",
      "n", "o", "p", "q", "r", "s", "t", "u", "v", "w", "x", "y", "z">>

UpperCase ==
    <<"A", "B", "C", "D", "E", "F", "G", "H", "I", "J", "K", "L", "M",
      "N", "O", "P", "Q", "R", "S", "T", "U", "V", "W", "X", "Y", "Z">>

SmallJCaron == "U+01F0"

CombiningCaron == "U+030C"

IndexIn(c, letters) == CHOOSE i \in 1..Len(letters) : letters[i] = c

\* whether str.title() takes c for a cased character
is_cased(c) == c \in Range(LowerCase) \/ c \in Range(UpperCase) \/ c = SmallJCaron

\* the lower case of one character
to_lower(c) ==
    IF c \in Range(UpperCase) THEN <<LowerCase[IndexIn(c, UpperCase)]>> ELSE <<c>>

\* the title case of one character
to_title(c) ==
    IF c \in Range(LowerCase) THEN <<UpperCase[IndexIn(c, LowerCase)]>>
    ELSE IF c = SmallJCaron THEN <<"J", CombiningCaron>>
    ELSE <<c>>

\* str.title(): a character that follows a cased character is put in lower
\* case, every other character in title case
RECURSIVE title_from(_, _)
title_from(string, previous_is_cased) ==
    IF string = <<>> THEN <<>>
    ELSE (IF previous_is_cased THEN to_lower(Head(string)) ELSE to_title(Head(string)))
         \o title_from(Tail(string), is_cased(Head(string)))

title(string) == title_from(string, FALSE)

\* str.strip(): leading and trailing white space is removed
RECURSIVE lstrip(_)
lstrip(string) ==
    IF string # <<>> /\ Head(string) = " " THEN lstrip(Tail(string)) ELSE string

RECURSIVE rstrip(_)
rstrip(string) ==
    IF string # <<>> /\ string[Len(string)] = " "
    THEN rstrip(SubSeq(string, 1, Len(string) - 1))
    ELSE string

strip(string) == rstrip(lstrip(string))

\* round(float(x), 1) of the numeric field: the nearest multiple of a tenth.
\* A number with a 5 in the second decimal is stored a little above or below
\* its decimal value, so it goes up or down: as fp.half_up says for the
\* field.
round1(field, x) ==
    LET q == x \div 10
        r == x % 10
    IN  IF r < 5 THEN 10 * q
        ELSE IF r > 5 THEN 10 * (q + 1)
        ELSE IF fp.half_up[field] THEN 10 * (q + 1) ELSE 10 * q

\* the copy of inputs with its numeric fields rounded and its categorical
\* fields stripped and put in title case (every categorical value of the
\* model is a string)
sanitize_inputs(inputs) ==
    [key \in DOMAIN inputs |->
        IF key \in {"attendance", "study_hours", "sleep_hours"}
        THEN round1(key, inputs[key])
        ELSE IF key \in {"family_support", "extracurricular", "previous_grades",
                         "financial_status", "mental_health", "peer_influence"}
        THEN title(strip(inputs[key]))
        ELSE inputs[key]]

(***************************************************************************)
(* utils/validators.py: check_for_anomalies, on a profile with numbers in  *)
(* tenths.  A warning is a record of the text of its format string (the    *)
(* warning sign that begins each text is written {warning sign}) and the   *)
(* value formatted into it.                                                *)
(***************************************************************************)
LowAttendance(value) ==
    [text |-> "{warning sign} Low attendance ({profile.attendance}%) - Consider intervention",
     value |-> value]

VeryLowStudyHours(value) ==
    [text |-> "{warning sign} Very low study hours ({profile.study_hours} hrs/day)",
     value |-> value]

VeryHighStudyHours(value) ==
    [text |-> "{warning sign} Very high study hours ({profile.study_hours} hrs/day) - Risk of burnout",
     value |-> value]

InsufficientSleep(value) ==
    [text |-> "{warning sign} Insufficient sleep ({profile.sleep_hours} hrs/night)",
     value |-> value]

ExcessiveSleep(value) ==
    [text |-> "{warning sign} Excessive sleep ({profile.sleep_hours} hrs/night)",
     value |-> value]

MentalHealthConcerns == [text |-> "{warning sign} Mental health concerns detected"]

FinancialStruggles ==
    [text |-> "{warning sign} Financial struggles may impact academic performance"]

\* a mutant: attendance of exactly 70 is reported, too
Mutant_check_for_anomalies(p) ==
    (IF p.attendance <= T(70) THEN <<LowAttendance(p.attendance)>> ELSE <<>>)
    \o (IF p.study_hours < T(2) THEN <<VeryLowStudyHours(p.study_hours)>>
        ELSE IF p.study_hours > T(10) THEN <<VeryHighStudyHours(p.study_hours)>>
        ELSE <<>>)
    \o (IF p.sleep_hours < T(6) THEN <<InsufficientSleep(p.sleep_hours)>>
        ELSE IF p.sleep_hours > T(12) THEN <<ExcessiveSleep(p.sleep_hours)>>
        ELSE <<>>)
    \o (IF p.mental_health \in {"Poor", "Fair"} THEN <<MentalHealthConcerns>> ELSE <<>>)
    \o (IF p.financial_status = "Struggling" THEN <<FinancialStruggles>> ELSE <<>>)

\* the list of warnings, in the order they are appended
check_for_anomalies(p) ==
    (IF p.attendance < T(70) THEN <<LowAttendance(p.attendance)>> ELSE <<>>)
    \o (IF p.study_hours < T(2) THEN <<VeryLowStudyHours(p.study_hours)>>
        ELSE IF p.study_hours > T(10) THEN <<VeryHighStudyHours(p.study_hours)>>
        ELSE <<>>)
    \o (IF p.sleep_hours < T(6) THEN <<InsufficientSleep(p.sleep_hours)>>
        ELSE IF p.sleep_hours > T(12) THEN <<ExcessiveSleep(p.sleep_hours)>>
        ELSE <<>>)
    \o (IF p.mental_health \in {"Poor", "Fair"} THEN <<MentalHealthConcerns>> ELSE <<>>)
    \o (IF p.financial_status = "Struggling" THEN <<FinancialStruggles>> ELSE <<>>)

(***************************************************************************)
(* components/results.py: render_improvement_simulator.                    *)
(***************************************************************************)
\* the factors that get a slider: the first three with score < 0.7
slider_factors(factor_scores) ==
    LET low_factors == SelectSeq(FactorOrder,
                                 LAMBDA factor : 10 * factor_scores[factor] < 7 * One)
    IN  SubSeq(low_factors, 1, IF Len(low_factors) < 3 THEN Len(low_factors) ELSE 3)

\* ((new_score - current_score) / current_score) * 100, as a fraction; the
\* division raises ZeroDivisionError when current_score is 0
improvement_pct(new_score, current_score) ==
    IF current_score = 0
    THEN [raised |-> "ZeroDivisionError"]
    ELSE [numerator |-> (new_score - current_score) * 100, denominator |-> current_score]

\* what the simulator computes when every slider stands at percent: nothing
\* when there is no slider
render_improvement_simulator(pred, percent) ==
    LET shown == slider_factors(pred.factor_scores)
        improvements == [factor \in Range(shown) |-> (percent * One) \div 100]
        current_score == pred.success_probability
    IN  IF shown # <<>>
        THEN LET new_score == estimate_intervention_impact(pred.factor_scores, improvements)
             IN  [improvements |-> improvements, current_score |-> current_score,
                  new_score |-> new_score,
                  improvement_pct |-> improvement_pct(new_score, current_score)]
        ELSE [improvements |-> improvements, current_score |-> current_score]

(***************************************************************************)
(* config.py: RECOMMENDATIONS, and components/results.py:                  *)
(* render_recommendations.  What is put on the page is a sequence of       *)
(* elements; a line of guidance is a record of its text (a format string   *)
(* with the factor formatted into it, for the generic lines).              *)
(***************************************************************************)
RECOMMENDATIONS ==
    [attendance |->
        [low |-> <<[text |-> "Implement daily attendance tracking"],
                   [text |-> "Schedule regular check-ins with advisor"],
                   [text |-> "Consider flexible attendance options"]>>,
         medium |-> <<[text |-> "Maintain current attendance rate"],
                      [text |-> "Set goal for 5% improvement"],
                      [text |-> "Join study groups for accountability"]>>],
     study_hours |->
        [low |-> <<[text |-> "Create structured study schedule"],
                   [text |-> "Use Pomodoro technique (25 min focus, 5 min break)"],
                   [text |-> "Attend study skills workshop"]>>,
         medium |-> <<[text |-> "Optimize study environment"],
                      [text |-> "Incorporate active recall techniques"],
                      [text |-> "Join peer study sessions"]>>],
     sleep_hours |->
        [low |-> <<[text |-> "Establish consistent sleep schedule"],
                   [text |-> "Avoid screens 1 hour before bed"],
                   [text |-> "Create relaxing bedtime routine"]>>]]

\* st.success(...) of render_recommendations
AllAcceptable ==
    [element |-> "success",
     text |-> "{U+1F389} All factors are at acceptable levels! Maintain current habits."]

\* st.info(f"**Focus Areas:** ...")
FocusAreas(factors) == [element |-> "info", text |-> "**Focus Areas:** {}", factors |-> factors]

\* the three lines for a factor that is not in the table
GenericLines(factor) ==
    <<[text |-> "Focus on improving {factor_name.lower()}", factor |-> factor],
      [text |-> "Set specific goals for {factor_name.lower()}", factor |-> factor],
      [text |-> "Track progress weekly"]>>

\* a mutant: a factor counts as low below 0.7
Mutant_low_factors_of(factor_scores) ==
    SelectSeq(FactorOrder, LAMBDA factor : 10 * factor_scores[factor] < 7 * One)

\* a mutant: a factor counts as low up to and including 0.5
Mutant_low_factors_upto(factor_scores) ==
    SelectSeq(FactorOrder, LAMBDA factor : 2 * factor_scores[factor] <= One)

\* low_factors: the factors with score < 0.5, in the order of
\* factor_scores.items()
low_factors_of(factor_scores) ==
    SelectSeq(FactorOrder, LAMBDA factor : 2 * factor_scores[factor] < One)

\* the heading and the lines of one factor; current_score is score * 100, in
\* units of 1/One.  Reading a bucket the table entry does not have raises
\* KeyError.
section_of(factor, factor_scores) ==
    LET current_score == factor_scores[factor] * 100
        bucket == IF current_score < 50 * One THEN "low" ELSE "medium"
    IN  IF factor \in DOMAIN RECOMMENDATIONS
        THEN IF bucket \in DOMAIN RECOMMENDATIONS[factor]
             THEN [element |-> "section", factor |-> factor, current_score |-> current_score,
                   bucket |-> bucket, lines |-> RECOMMENDATIONS[factor][bucket]]
             ELSE [element |-> "KeyError", factor |-> factor, current_score |-> current_score,
                   bucket |-> bucket, lines |-> <<>>]
        ELSE [element |-> "section", factor |-> factor, current_score |-> current_score,
              bucket |-> "generic", lines |-> GenericLines(factor)]

\* the sections of the first n of the factors shown; nothing follows a
\* section that raised
RECURSIVE sections_of(_, _, _)
sections_of(shown, factor_scores, n) ==
    IF n = 0 THEN <<>>
    ELSE LET before == sections_of(shown, factor_scores, n - 1)
         IN  IF before # <<>> /\ before[Len(before)].element = "KeyError"
             THEN before
             ELSE Append(before, section_of(shown[n], factor_scores))

render_recommendations(pred) ==
    LET low_factors == low_factors_of(pred.factor_scores)
        shown == SubSeq(low_factors, 1, IF Len(low_factors) < 3 THEN Len(low_factors) ELSE 3)
    IN  IF low_factors = <<>>
        THEN <<AllAcceptable>>
        ELSE <<FocusAreas(shown)>> \o sections_of(shown, pred.factor_scores, Len(shown))

(***************************************************************************)
(* app.py: its own predictor and the session.                              *)
(***************************************************************************)
\* the risk levels of app.py's predict, from the top one down; at_least in
\* units of 1/Scale4.  The labels of app.py begin with four characters,
\* written by their code points in braces.
app_risk_levels ==
    << [at_least |-> 8500, label |-> "{U+F8FF U+00FC U+00FC U+00A9} Success",
        color |-> "#06D6A0", description |-> "On track for academic success"],
       [at_least |-> 7000, label |-> "{U+F8FF U+00FC U+00FC U+00DF} At Risk",
        color |-> "#FFA726", description |-> "Below target, needs improvement"],
       [at_least |-> 4000, label |-> "{U+F8FF U+00FC U+00FC U+00AE} Moderate Risk",
        color |-> "#FFD166", description |-> "Requires monitoring and support"],
       [at_least |-> 0, label |-> "{U+F8FF U+00FC U+00FC U+2022} High Risk",
        color |-> "#FF6B6B", description |-> "Needs immediate intervention"] >>

\* StudentSuccessPredictor.normalize_value of app.py
app_normalize_value(value, min_val, max_val) ==
    IF value <= min_val THEN 0
    ELSE IF value >= max_val THEN One
    ELSE ((value - min_val) * One) \div (max_val - min_val)

\* StudentSuccessPredictor.calculate_factor_scores of app.py
app_calculate_factor_scores(p) ==
    [f \in Factors |->
        CASE f = "attendance"  -> app_normalize_value(p.attendance, T(60), T(100))
          [] f = "study_hours" -> app_normalize_value(p.study_hours, T(1), T(8))
          [] f = "sleep_hours" -> app_normalize_value(p.sleep_hours, T(4), T(10))
          [] OTHER             -> SCORE_MAPPINGS[f][p[f]]]

\* the if/elif chain of app.py's predict: the first level whose threshold
\* the probability reaches; the last one is the else branch
app_risk_level(success_probability) ==
    LET reached == SelectSeq(app_risk_levels,
                             LAMBDA l : success_probability >= l.at_least)
        level == IF reached # <<>> THEN Head(reached)
                 ELSE app_risk_levels[Len(app_risk_levels)]
    IN  [label |-> level.label, color |-> level.color, description |-> level.description]

\* StudentSuccessPredictor.predict of app.py.  The nine products are added
\* in the order of models/predictor.py, so the float total and its rounding
\* are the same.
app_predict(p) ==
    LET factor_scores == app_calculate_factor_scores(p)
        success_probability == round4(total_score(factor_scores, app_weights))
    IN  [success_probability |-> success_probability,
         risk_assessment |-> app_risk_level(success_probability),
         factor_scores |-> factor_scores,
         profile |-> p]

\* initialize_session_state
initialize_session_state == [prediction_history |-> <<>>, current_prediction |-> None]

\* a mutant: the result is shown and not recorded
Mutant_on_predict_click(session, p) ==
    IF p # None
    THEN [session EXCEPT !.current_prediction = app_predict(p)]
    ELSE session

\* main: the body of 'if st.button(...)' when the button was clicked; p is
\* the profile of render_student_inputs, None when validation failed
on_predict_click(session, p) ==
    IF p # None
    THEN LET prediction_result == app_predict(p)
         IN  [prediction_history |-> Append(session.prediction_history, prediction_result),
              current_prediction |-> prediction_result]
    ELSE session

(***************************************************************************)
(* utils/helpers.py: save_prediction_to_history.                           *)
(***************************************************************************)
\* 'if len(st.session_state.prediction_history) > 10'
HistoryLimit == 10

\* the dictionary that is appended: a copy of the prediction with the two
\* keys added
prediction_with_time(pred, now, id) == [timestamp |-> now, id |-> id] @@ pred

\* the session after save_prediction_to_history(pred) at the time now; a
\* session without the key gets an empty history first
save_prediction_to_history(session, pred, now) ==
    LET history == IF "prediction_history" \in DOMAIN session
                   THEN session.prediction_history ELSE <<>>
        appended == Append(history, prediction_with_time(pred, now, Len(history)))
        kept == IF Len(appended) > HistoryLimit
                THEN SubSeq(appended, Len(appended) - HistoryLimit + 1, Len(appended))
                ELSE appended
    IN  [k \in DOMAIN session \cup {"prediction_history"} |->
            IF k = "prediction_history" THEN kept ELSE session[k]]

(***************************************************************************)
(* The inputs of the model.                                                *)
(***************************************************************************)
\* Samples values strictly between lo and hi
Grid(lo, hi) == {lo + (k * (hi - lo)) \div (Samples + 1) : k \in 1..Samples}

\* 0, the value of the default form, the upper normalisation bound (and one
\* value beyond it), and the sample points in between
AttendanceValues == {T(0), T(85), T(100)} \cup Grid(T(60), T(100))
StudyValues == {T(0), T(3), T(8)} \cup Grid(T(1), T(8))
SleepValues == {T(0), T(7), T(10), T(24)} \cup Grid(T(4), T(10))

Profiles ==
    [attendance : AttendanceValues, study_hours : StudyValues, sleep_hours : SleepValues,
     family_support : DOMAIN SCORE_MAPPINGS["family_support"],
     extracurricular : DOMAIN SCORE_MAPPINGS["extracurricular"],
     previous_grades : DOMAIN SCORE_MAPPINGS["previous_grades"],
     financial_status : DOMAIN SCORE_MAPPINGS["financial_status"],
     mental_health : DOMAIN SCORE_MAPPINGS["mental_health"],
     peer_influence : DOMAIN SCORE_MAPPINGS["peer_influence"]]

\* The floating-point outcomes left open for a profile.  up matters only for
\* a total at an exact half.  ulp[f] ranks the float product of f among the
\* factors whose exact impact is the same: it may be nonzero only when the
\* exact impact of f equals that of a factor with another (score, weight)
\* pair, factors with the same pair have the same float product, and the
\* ranks used within one exact value are 0, 1, ... without a gap.  A factor
\* with three or more exact impacts above its own cannot reach the top
\* three whatever its rank is: its rank is left 0.
Operands(fs) == [f \in Factors |-> <<fs[f], weight_of(f)>>]

Exact(operands) == operands[1] * operands[2]

TiedFactors(ops) ==
    {f \in Factors :
        /\ Cardinality({g \in Factors : Exact(ops[g]) > Exact(ops[f])}) < 3
        /\ \E g \in Factors : Exact(ops[g]) = Exact(ops[f]) /\ ops[g] # ops[f]}

UlpRanks(ops, tied) ==
    {[f \in Factors |-> IF f \in tied THEN e[f] ELSE 0] :
        e \in {e \in [tied -> 0..2] :
                /\ \A f, g \in tied : ops[f] = ops[g] => e[f] = e[g]
                /\ \A f \in tied : e[f] = 0 \/ \E g \in tied :
                        Exact(ops[g]) = Exact(ops[f]) /\ e[g] = e[f] - 1}}

FloatEnvs(p) ==
    UNION {UNION {UNION {
        {[up |-> u, ulp |-> e] :
            u \in (IF IsTie(total_score(fs, self_weights)) THEN BOOLEAN ELSE {FALSE}),
            e \in UlpRanks(ops, tied)} :
        tied \in {TiedFactors(ops)}} :
        ops \in {Operands(fs)}} :
        fs \in {calculate_factor_scores(p)}}

NoFloat == [up |-> FALSE, ulp |-> [f \in Factors |-> 0]]

\* the simulator is not in use
SimIdle == sim_improvements = None /\ simulated = None

\* nothing is rendered and there is no session
AppIdle == rendered = None /\ session_state = None

\* the input form is not in use
InputIdle ==
    /\ raw = None /\ sanitized = None /\ resanitized = None
    /\ validation = None /\ created = None /\ warnings = None

(***************************************************************************)
(* Spec: one call of predict on a valid profile.                           *)
(***************************************************************************)
Init ==
    /\ self_weights = WEIGHTS
    /\ profile \in Profiles
    /\ fp \in FloatEnvs(profile)
    /\ prediction = None
    /\ score = None
    /\ risk = None
    /\ SimIdle
    /\ AppIdle
    /\ InputIdle

Predict ==
    /\ prediction = None
    /\ prediction' = predict(profile)
    /\ UNCHANGED <<self_weights, profile, fp, score, risk, sim_vars, app_vars, input_vars>>

Next == Predict

Spec == Init /\ [][Next]_vars

(***************************************************************************)
(* SpecRisk: one call of determine_risk_level on a score in [0, 1].        *)
(***************************************************************************)
InitRisk ==
    /\ self_weights = WEIGHTS
    /\ score \in 0..Scale4
    /\ risk = None
    /\ profile = None
    /\ fp = NoFloat
    /\ prediction = None
    /\ SimIdle
    /\ AppIdle
    /\ InputIdle

DetermineRiskLevel ==
    /\ risk = None
    /\ risk' = determine_risk_level(score)
    /\ UNCHANGED <<self_weights, profile, fp, prediction, score, sim_vars, app_vars, input_vars>>

NextRisk == DetermineRiskLevel

SpecRisk == InitRisk /\ [][NextRisk]_vars

(***************************************************************************)
(* SpecSim: predict on a profile, then one call of                         *)
(* estimate_intervention_impact on the factor scores of the prediction.    *)
(***************************************************************************)
Weakest ==
    [attendance |-> T(0), study_hours |-> T(0), sleep_hours |-> T(0),
     family_support |-> "Low", extracurricular |-> "None", previous_grades |-> "Poor",
     financial_status |-> "Struggling", mental_health |-> "Poor",
     peer_influence |-> "Negative"]

Strongest ==
    [attendance |-> T(100), study_hours |-> T(8), sleep_hours |-> T(10),
     family_support |-> "High", extracurricular |-> "High",
     previous_grades |-> "Excellent", financial_status |-> "Comfortable",
     mental_health |-> "Excellent", peer_influence |-> "Positive"]

DefaultForm ==
    [attendance |-> T(85), study_hours |-> T(3), sleep_hours |-> T(7),
     family_support |-> "High", extracurricular |-> "Moderate", previous_grades |-> "Good",
     financial_status |-> "Stable", mental_health |-> "Good", peer_influence |-> "Positive"]

\* the three sets of answers, each with a low and the top attendance and
\* with no and the top study hours
SimProfiles ==
    {[c EXCEPT !.attendance = a, !.study_hours = h] :
        a \in {T(61), T(100)}, h \in {T(0), T(8)},
        c \in {Weakest, DefaultForm, Strongest}}

\* deltas: a large negative one, ten points (the default of the sliders), and
\* a large positive one
Deltas == {0 - 3 * One, One \div 10, 5 * One}

\* the dictionaries with at most MaxImprovements entries
ImprovementMaps ==
    UNION {[S -> Deltas] : S \in {S \in SUBSET Factors : Cardinality(S) <= MaxImprovements}}

InitSim ==
    /\ self_weights = WEIGHTS
    /\ profile \in SimProfiles
    /\ fp \in [up : BOOLEAN, sim_up : BOOLEAN, ulp : {NoFloat.ulp}]
    /\ prediction = None
    /\ score = None
    /\ risk = None
    /\ sim_improvements \in ImprovementMaps
    /\ simulated = None
    /\ InputIdle
    /\ AppIdle

\* a mutant: the new factor scores are written back into factor_scores
Mutant_EstimateInterventionImpact ==
    /\ prediction # None
    /\ simulated = None
    /\ simulated' =
          [current_score |-> prediction.success_probability,
           new_score |-> estimate_intervention_impact(prediction.factor_scores,
                                                      sim_improvements)]
    /\ prediction' =
          [prediction EXCEPT !.factor_scores =
              [f \in Factors |->
                  new_factor_score(prediction.factor_scores[f], get(sim_improvements, f))]]
    /\ UNCHANGED <<self_weights, profile, fp, score, risk, sim_improvements, input_vars, app_vars>>

EstimateInterventionImpact ==
    /\ prediction # None
    /\ simulated = None
    /\ simulated' =
          [current_score |-> prediction.success_probability,
           new_score |-> estimate_intervention_impact(prediction.factor_scores,
                                                      sim_improvements)]
    /\ UNCHANGED <<self_weights, profile, fp, prediction, score, risk,
                   sim_improvements, input_vars, app_vars>>

NextSim == Predict \/ EstimateInterventionImpact

SpecSim == InitSim /\ [][NextSim]_vars

(***************************************************************************)
(* SpecValidate: validate_student_inputs and create_student_profile on a   *)
(* raw record.  The records are valid records in which at most MaxFaults   *)
(* fields are missing or replaced by a value that is not valid, with or    *)
(* without a key that is not a field of StudentProfile.                    *)
(***************************************************************************)
NumericFields == {"attendance", "study_hours", "sleep_hours"}

\* the valid records: every numeric field at its lower or upper bound, the
\* categorical fields at their i-th option (the last one for a field with
\* fewer options)
ValidRecords ==
    {[f \in Range(required_fields) |->
        IF f \in NumericFields THEN n[f]
        ELSE valid_values[f][IF i <= Len(valid_values[f]) THEN i ELSE Len(valid_values[f])]] :
        n \in [attendance : {T(0), T(100)}, study_hours : {T(0), T(24)},
               sleep_hours : {T(0), T(24)}],
        i \in 1..4}

\* two values that are not valid for a field: just below the range and above
\* it (attendance: 150), an option in lower case and a word that is no option
InvalidValue(field, k) ==
    CASE field = "attendance" -> IF k = 1 THEN 0 - 1 ELSE T(150)
      [] field \in {"study_hours", "sleep_hours"} -> IF k = 1 THEN 0 - 1 ELSE T(24) + 1
      [] field = "family_support" -> IF k = 1 THEN "low" ELSE "Unknown"
      [] field = "extracurricular" -> IF k = 1 THEN "none" ELSE "Unknown"
      [] field = "previous_grades" -> IF k = 1 THEN "excellent" ELSE "Unknown"
      [] field = "financial_status" -> IF k = 1 THEN "stable" ELSE "Unknown"
      [] field = "mental_health" -> IF k = 1 THEN "good" ELSE "Unknown"
      [] field = "peer_influence" -> IF k = 1 THEN "positive" ELSE "Unknown"

\* what happens to the faulty fields: 0 removes the key, k > 0 puts the k-th
\* invalid value
FaultPlans ==
    UNION {[S -> 0..2] :
        S \in {S \in SUBSET Range(required_fields) : Cardinality(S) <= MaxFaults}}

Faulty(record, plan, extra) ==
    [key \in {f \in DOMAIN record : ~(f \in DOMAIN plan /\ plan[f] = 0)}
             \cup (IF extra THEN {"student_name"} ELSE {}) |->
        IF key = "student_name" THEN "Ada"
        ELSE IF key \in DOMAIN plan THEN InvalidValue(key, plan[key])
        ELSE record[key]]

RawRecords ==
    {Faulty(record, plan, extra) :
        record \in ValidRecords, plan \in FaultPlans, extra \in BOOLEAN}

InitValidate ==
    /\ self_weights = WEIGHTS
    /\ profile = None
    /\ fp = NoFloat
    /\ prediction = None
    /\ score = None
    /\ risk = None
    /\ SimIdle
    /\ AppIdle
    /\ raw \in RawRecords
    /\ sanitized = None
    /\ resanitized = None
    /\ validation = None
    /\ created = None
    /\ warnings = None

ValidateStudentInputs ==
    /\ validation = None
    /\ validation' = validate_student_inputs(raw)
    /\ UNCHANGED <<self_weights, profile, fp, prediction, score, risk, sim_vars, app_vars,
                   raw, sanitized, resanitized, created, warnings>>

CreateStudentProfile ==
    /\ created = None
    /\ created' = create_student_profile(raw)
    /\ UNCHANGED <<self_weights, profile, fp, prediction, score, risk, sim_vars, app_vars,
                   raw, sanitized, resanitized, validation, warnings>>

NextValidate == ValidateStudentInputs \/ CreateStudentProfile

SpecValidate == InitValidate /\ [][NextValidate]_vars

(***************************************************************************)
(* SpecSanitize: sanitize_inputs on a loosely formatted record, then on    *)
(* its own result.                                                         *)
(***************************************************************************)
\* answers as they may be typed: Fair, high, Low, MEDIUM, not sure, so-so,
\* and a word that begins with U+01F0
Words ==
    <<<<"F", "a", "i", "r">>,
      <<"h", "i", "g", "h">>,
      <<"L", "o", "w">>,
      <<"M", "E", "D", "I", "U", "M">>,
      <<"n", "o", "t", " ", "s", "u", "r", "e">>,
      <<"s", "o", "-", "s", "o">>,
      <<SmallJCaron, "a">>>>

\* a word as it is, with a leading space, or with spaces on both sides
Padded(word, padding) ==
    CASE padding = 1 -> word
      [] padding = 2 -> <<" ">> \o word
      [] padding = 3 -> <<" ", " ">> \o word \o <<" ">>

\* numbers with two decimals that round down, lie half way, and have one
\* decimal already
LooseNumbers ==
    [attendance : {H(85) - 6, H(85) - 5, H(85)},
     study_hours : {H(3) + 4, H(3) + 5, H(3) + 50},
     sleep_hours : {H(7) - 10, H(7) + 15, H(7) + 16}]

\* the records: the categorical fields hold successive words, beginning at
\* the i-th, with the same padding; at most one field is missing
LooseRecords ==
    {[f \in Range(required_fields) \ S |->
        IF f \in NumericFields THEN n[f]
        ELSE Padded(Words[((i + IndexIn(f, required_fields)) % Len(Words)) + 1], padding)] :
        n \in LooseNumbers, i \in 1..Len(Words), padding \in 1..3,
        S \in {S \in SUBSET Range(required_fields) : Cardinality(S) <= 1}}

InitSanitize ==
    /\ self_weights = WEIGHTS
    /\ profile = None
    /\ fp \in [up : {FALSE}, ulp : {NoFloat.ulp}, half_up : [NumericFields -> BOOLEAN]]
    /\ prediction = None
    /\ score = None
    /\ risk = None
    /\ SimIdle
    /\ AppIdle
    /\ raw \in LooseRecords
    /\ sanitized = None
    /\ resanitized = None
    /\ validation = None
    /\ created = None
    /\ warnings = None

SanitizeInputs ==
    /\ sanitized = None
    /\ sanitized' = sanitize_inputs(raw)
    /\ UNCHANGED <<self_weights, profile, fp, prediction, score, risk, sim_vars, app_vars,
                   raw, resanitized, validation, created, warnings>>

SanitizeAgain ==
    /\ sanitized # None
    /\ resanitized = None
    /\ resanitized' = sanitize_inputs(sanitized)
    /\ UNCHANGED <<self_weights, profile, fp, prediction, score, risk, sim_vars, app_vars,
                   raw, sanitized, validation, created, warnings>>

NextSanitize == SanitizeInputs \/ SanitizeAgain

SpecSanitize == InitSanitize /\ [][NextSanitize]_vars

(***************************************************************************)
(* SpecAnomalies: check_for_anomalies on a valid profile.                  *)
(***************************************************************************)
\* the default form with the numeric fields at the ends of their ranges and
\* at and next to the thresholds of the warnings, and with every option of
\* mental_health and financial_status
AnomalyProfiles ==
    {[DefaultForm EXCEPT !.attendance = a, !.study_hours = h, !.sleep_hours = z,
                         !.mental_health = m, !.financial_status = f] :
        a \in {T(0), T(70) - 1, T(70), T(100)},
        h \in {T(0), T(2) - 1, T(2), T(10), T(10) + 1, T(24)},
        z \in {T(0), T(6) - 1, T(6), T(12), T(12) + 1, T(24)},
        m \in Range(valid_values["mental_health"]),
        f \in Range(valid_values["financial_status"])}

InitAnomalies ==
    /\ self_weights = WEIGHTS
    /\ profile \in AnomalyProfiles
    /\ fp = NoFloat
    /\ prediction = None
    /\ score = None
    /\ risk = None
    /\ SimIdle
    /\ AppIdle
    /\ InputIdle

CheckForAnomalies ==
    /\ warnings = None
    /\ warnings' = [anomalies |-> check_for_anomalies(profile)]
    /\ UNCHANGED <<self_weights, profile, fp, prediction, score, risk, sim_vars, app_vars,
                   raw, sanitized, resanitized, validation, created>>

NextAnomalies == CheckForAnomalies

SpecAnomalies == InitAnomalies /\ [][NextAnomalies]_vars

(***************************************************************************)
(* SpecRecommend: predict on a profile, then render_recommendations on the *)
(* prediction.                                                             *)
(***************************************************************************)
\* continuous inputs with scores 0, below 0.5, 0.5 and 1, and every
\* combination of the categorical options
RecommendProfiles ==
    [attendance : {T(61), T(76), T(80), T(100)}, study_hours : {T(0), T(8)},
     sleep_hours : {T(0), T(7), T(10)},
     family_support : DOMAIN SCORE_MAPPINGS["family_support"],
     extracurricular : DOMAIN SCORE_MAPPINGS["extracurricular"],
     previous_grades : DOMAIN SCORE_MAPPINGS["previous_grades"],
     financial_status : DOMAIN SCORE_MAPPINGS["financial_status"],
     mental_health : DOMAIN SCORE_MAPPINGS["mental_health"],
     peer_influence : DOMAIN SCORE_MAPPINGS["peer_influence"]]

InitRecommend ==
    /\ self_weights = WEIGHTS
    /\ profile \in RecommendProfiles
    /\ fp = NoFloat
    /\ prediction = None
    /\ score = None
    /\ risk = None
    /\ SimIdle
    /\ InputIdle
    /\ AppIdle

RenderRecommendations ==
    /\ prediction # None
    /\ rendered = None
    /\ rendered' = [page |-> render_recommendations(prediction)]
    /\ UNCHANGED <<self_weights, profile, fp, prediction, score, risk, sim_vars,
                   input_vars, session_state>>

NextRecommend == Predict \/ RenderRecommendations

SpecRecommend == InitRecommend /\ [][NextRecommend]_vars

(***************************************************************************)
(* SpecApp: a session of app.py.  Each run of the script renders the form  *)
(* (profile is its result) and, when the button was clicked, predicts.     *)
(* rendered counts the runs with a click and holds what the page shows.    *)
(***************************************************************************)
\* the default form, and the strongest answers, whose probability is 1.0
AppProfiles ==
    {[attendance |-> T(85), study_hours |-> T(3), sleep_hours |-> T(7),
      family_support |-> "High", extracurricular |-> "Moderate", previous_grades |-> "Good",
      financial_status |-> "Stable", mental_health |-> "Good", peer_influence |-> "Positive"],
     [attendance |-> T(100), study_hours |-> T(8), sleep_hours |-> T(10),
      family_support |-> "High", extracurricular |-> "High",
      previous_grades |-> "Excellent", financial_status |-> "Comfortable",
      mental_health |-> "Excellent", peer_influence |-> "Positive"]}

\* what render_student_inputs can return as profile
FormResults == AppProfiles \cup {None}

\* 'if st.session_state.current_prediction: render_prediction_results(...)'
page_of(session, clicks) ==
    [clicks |-> clicks,
     page |-> IF session.current_prediction # None
              THEN <<[element |-> "prediction_results",
                      prediction |-> session.current_prediction]>>
              ELSE <<>>]

InitApp ==
    /\ self_weights = WEIGHTS
    /\ profile \in FormResults
    /\ fp = NoFloat
    /\ prediction = None
    /\ score = None
    /\ risk = None
    /\ SimIdle
    /\ InputIdle
    /\ session_state = initialize_session_state
    /\ rendered = page_of(session_state, 0)

\* a run of the script after a change of the form
ChangeInputs ==
    /\ profile' \in FormResults \ {profile}
    /\ UNCHANGED <<self_weights, fp, prediction, score, risk, sim_vars, input_vars, app_vars>>

\* a run of the script after a click on the button
ClickPredict ==
    /\ rendered.clicks < MaxClicks
    /\ session_state' = on_predict_click(session_state, profile)
    /\ rendered' = page_of(session_state', rendered.clicks + 1)
    /\ UNCHANGED <<self_weights, profile, fp, prediction, score, risk, sim_vars, input_vars>>

NextApp == ChangeInputs \/ ClickPredict

SpecApp == InitApp /\ [][NextApp]_vars

(***************************************************************************)
(* SpecHistory: predictions of models/predictor.py saved with              *)
(* save_prediction_to_history, in a session that has or has not been       *)
(* initialised.                                                            *)
(***************************************************************************)
\* time.strftime("%Y-%m-%d %H:%M:%S")
Timestamps == {"2026-01-01 09:00:00"}

InitHistory ==
    /\ self_weights = WEIGHTS
    /\ profile \in AppProfiles
    /\ fp = NoFloat
    /\ prediction = None
    /\ score = None
    /\ risk = None
    /\ SimIdle
    /\ InputIdle
    /\ rendered = None
    /\ session_state \in {[current_prediction |-> None], initialize_session_state}

SavePredictionToHistory ==
    /\ prediction # None
    /\ \E now \in Timestamps :
          session_state' = save_prediction_to_history(session_state, prediction, now)
    /\ UNCHANGED <<self_weights, profile, fp, prediction, score, risk, sim_vars,
                   input_vars, rendered>>

\* the next run of the script: a form, and no prediction yet
NewRun ==
    /\ prediction # None
    /\ profile' \in AppProfiles
    /\ prediction' = None
    /\ UNCHANGED <<self_weights, fp, score, risk, sim_vars, input_vars, app_vars>>

NextHistory == Predict \/ SavePredictionToHistory \/ NewRun

SpecHistory == InitHistory /\ [][NextHistory]_vars

(***************************************************************************)
(* SpecFloor: predict on a profile with low continuous inputs, then the    *)
(* improvement simulator on the prediction.                                *)
(***************************************************************************)
\* continuous inputs below, at and just above the lower end of their
\* scoring range, and every combination of the categorical options
FloorProfiles ==
    [attendance : {T(0), T(60), T(61)}, study_hours : {T(0), T(1), T(2)},
     sleep_hours : {T(0), T(4), T(5)},
     family_support : DOMAIN SCORE_MAPPINGS["family_support"],
     extracurricular : DOMAIN SCORE_MAPPINGS["extracurricular"],
     previous_grades : DOMAIN SCORE_MAPPINGS["previous_grades"],
     financial_status : DOMAIN SCORE_MAPPINGS["financial_status"],
     mental_health : DOMAIN SCORE_MAPPINGS["mental_health"],
     peer_influence : DOMAIN SCORE_MAPPINGS["peer_influence"]]

\* the sliders: the default of 10 points
SliderValues == {10}

InitFloor ==
    /\ self_weights = WEIGHTS
    /\ profile \in FloorProfiles
    /\ fp \in [up : BOOLEAN, sim_up : BOOLEAN, ulp : {NoFloat.ulp}]
    /\ prediction = None
    /\ score = None
    /\ risk = None
    /\ SimIdle
    /\ InputIdle
    /\ AppIdle

RenderImprovementSimulator ==
    /\ prediction # None
    /\ simulated = None
    /\ \E percent \in SliderValues :
          simulated' = render_improvement_simulator(prediction, percent)
    /\ sim_improvements' = simulated'.improvements
    /\ UNCHANGED <<self_weights, profile, fp, prediction, score, risk, input_vars,
                   app_vars>>

NextFloor == Predict \/ RenderImprovementSimulator

SpecFloor == InitFloor /\ [][NextFloor]_vars

(***************************************************************************)
(* The profiles of the end-to-end scenarios.                               *)
(***************************************************************************)
AllMaximum(p) ==
    /\ p.attendance = T(100) /\ p.study_hours >= T(8) /\ p.sleep_hours >= T(10)
    /\ p.family_support = "High" /\ p.extracurricular = "High"
    /\ p.previous_grades = "Excellent" /\ p.financial_status = "Comfortable"
    /\ p.mental_health = "Excellent" /\ p.peer_influence = "Positive"

AllMinimum(p) ==
    /\ p.attendance = T(0) /\ p.study_hours = T(0) /\ p.sleep_hours = T(0)
    /\ p.family_support = "Low" /\ p.extracurricular = "None"
    /\ p.previous_grades = "Poor" /\ p.financial_status = "Struggling"
    /\ p.mental_health = "Poor" /\ p.peer_influence = "Negative"

\* what validate_student_inputs accepts
ValidProfile(p) ==
    /\ 0 <= p.attendance /\ p.attendance <= T(100)
    /\ 0 <= p.study_hours /\ p.study_hours <= T(24)
    /\ 0 <= p.sleep_hours /\ p.sleep_hours <= T(24)
    /\ p.family_support \in {"Low", "Medium", "High"}
    /\ p.extracurricular \in {"None", "Moderate", "High"}
    /\ p.previous_grades \in {"Poor", "Average", "Good", "Excellent"}
    /\ p.financial_status \in {"Struggling", "Stable", "Comfortable"}
    /\ p.mental_health \in {"Poor", "Fair", "Good", "Excellent"}
    /\ p.peer_influence \in {"Negative", "Neutral", "Positive"}

Predicted == prediction # None

RiskLevelKeys == {"HIGH_RISK", "MODERATE_RISK", "AT_RISK", "SUCCESS"}

(***************************************************************************)
(* Claims.                                                                 *)
(***************************************************************************)

\* C1: for every valid profile, predict(profile).success_probability lies
\* in [0, 1].
C1_ProbabilityInUnitInterval ==
    (Predicted /\ ValidProfile(prediction.profile)) =>
        /\ prediction.success_probability >= 0
        /\ prediction.success_probability <= Scale4

\* C1 witness: a valid profile with an input beyond its normalisation bound
\* (24 hours of sleep) has been predicted, and the result is the top of the
\* interval.
C1_Witness ==
    /\ Predicted
    /\ ValidProfile(prediction.profile)
    /\ prediction.profile.sleep_hours = T(24)
    /\ prediction.success_probability = Scale4

\* C2 (as claimed): determine_risk_level maps every score in [0, 1] to one
\* of the four risk levels, and 0.0, 0.4, 0.7, 0.85, 1.0 map to High Risk,
\* Moderate Risk, At Risk, Success, Success.
C2_EveryScoreClassified ==
    (risk # None /\ 0 <= score /\ score <= Scale4) =>
        /\ risk.level \in RiskLevelKeys
        /\ Cardinality({i \in 1..Len(RISK_LEVELS) : RISK_LEVELS[i].key = risk.level}) = 1
        /\ score = 0 => risk.level = "HIGH_RISK"
        /\ score = 4000 => risk.level = "MODERATE_RISK"
        /\ score = 7000 => risk.level = "AT_RISK"
        /\ score = 8500 => risk.level = "SUCCESS"
        /\ score = Scale4 => risk.level = "SUCCESS"

\* C3 (as claimed): the UNKNOWN sentinel is unreachable through predict: the
\* risk level of every valid profile is one of the four levels.
C3_UnknownUnreachable ==
    (Predicted /\ ValidProfile(prediction.profile)) =>
        /\ prediction.risk_assessment.level \in RiskLevelKeys
        /\ prediction.risk_assessment.level # "UNKNOWN"

\* C4 (as claimed): the all-maximum profile yields success_probability 1.0
\* and risk level Success.
C4_AllMaximumIsSuccess ==
    (Predicted /\ AllMaximum(prediction.profile)) =>
        /\ prediction.success_probability = Scale4
        /\ prediction.risk_assessment.level = "SUCCESS"

\* C5 (as claimed): the all-minimum profile yields success_probability 0.0
\* and risk level High Risk.
C5_AllMinimumIsZero ==
    (Predicted /\ AllMinimum(prediction.profile)) =>
        /\ prediction.success_probability = 0
        /\ prediction.risk_assessment.level = "HIGH_RISK"

\* C5 (amended): the all-minimum profile yields success_probability 0.093
\* (the weakest categorical options score 0.2 or 0.3, not 0) and risk level
\* High Risk.
C5_AllMinimumAmended ==
    (Predicted /\ AllMinimum(prediction.profile)) =>
        /\ prediction.success_probability = 930
        /\ prediction.risk_assessment.level = "HIGH_RISK"
        /\ prediction.risk_assessment.label = "{U+1F7E5} High Risk"

\* C5 witness: the all-minimum profile has been predicted.
C5_Witness == Predicted /\ AllMinimum(prediction.profile)

\* the factor scores the scenario of C6 expects
C6_FactorScores ==
    /\ prediction.factor_scores["attendance"] * 1000 = 625 * One
    /\ prediction.factor_scores["study_hours"] * 7 = 2 * One
    /\ prediction.factor_scores["sleep_hours"] * 10 = 5 * One
    /\ prediction.factor_scores["family_support"] = One
    /\ prediction.factor_scores["extracurricular"] * 10 = 7 * One
    /\ prediction.factor_scores["previous_grades"] * 10 = 8 * One
    /\ prediction.factor_scores["financial_status"] * 10 = 7 * One
    /\ prediction.factor_scores["mental_health"] * 10 = 8 * One
    /\ prediction.factor_scores["peer_influence"] = One

\* C6 (as claimed): the profile of the default form has the factor scores
\* above, success_probability 0.6932 and risk level Moderate Risk.
C6_ScenarioAsClaimed ==
    (Predicted /\ prediction.profile = DefaultForm) =>
        /\ C6_FactorScores
        /\ prediction.success_probability = 6932
        /\ prediction.risk_assessment.level = "MODERATE_RISK"

\* C6 (amended): the profile of the default form has the factor scores
\* above, success_probability 0.6144 and risk level Moderate Risk.
C6_ScenarioAmended ==
    (Predicted /\ prediction.profile = DefaultForm) =>
        /\ C6_FactorScores
        /\ prediction.success_probability = 6144
        /\ prediction.risk_assessment.level = "MODERATE_RISK"
        /\ prediction.risk_assessment.label = "{U+1F7E8} Moderate Risk"

\* C6 witness: the profile of the default form has been predicted.
C6_Witness == Predicted /\ prediction.profile = DefaultForm

RECURSIVE SumOver(_, _)
SumOver(f, S) ==
    IF S = {} THEN 0
    ELSE LET x == CHOOSE y \in S : TRUE IN f[x] + SumOver(f, S \ {x})

CategoryTotal(table, category) == SumOver(table[category], DOMAIN table[category])

WeightTableSums(table) ==
    /\ CategoryTotal(table, "academic_factors") = 60
    /\ CategoryTotal(table, "wellness_factors") = 30
    /\ CategoryTotal(table, "support_factors") = 10
    /\ Cardinality(UNION {DOMAIN table[c] : c \in DOMAIN table}) = 9
    /\   CategoryTotal(table, "academic_factors")
       + CategoryTotal(table, "wellness_factors")
       + CategoryTotal(table, "support_factors") = 100

\* C7: in both copies of the weight table (config.WEIGHTS, which the
\* predictor holds as self.weights, and the table app.py builds) the
\* academic, wellness and support subtotals are 0.60, 0.30 and 0.10 and the
\* nine weights sum to 1.0.
C7_WeightSums == WeightTableSums(self_weights) /\ WeightTableSums(app_weights)

\* C7 witness: a prediction in which every factor scores 1.0 has used every
\* weight in full, and its total is 1.0.
C7_Witness ==
    /\ Predicted
    /\ \A f \in Factors : prediction.factor_scores[f] = One
    /\ prediction.success_probability = Scale4

\* the clamped linear normalisation of the specification
Norm(v, lo, hi) ==
    IF v <= lo THEN 0 ELSE IF v >= hi THEN One ELSE ((v - lo) * One) \div (hi - lo)

\* C8: for every valid profile calculate_factor_scores returns exactly the
\* nine factor keys, each value in [0, 1], and the continuous factors are the
\* clamped linear normalisation over [60,100], [1,8] and [4,10].
C8_FactorScores ==
    (Predicted /\ ValidProfile(prediction.profile)) =>
        /\ DOMAIN prediction.factor_scores =
              {"attendance", "study_hours", "sleep_hours", "family_support",
               "extracurricular", "previous_grades", "financial_status",
               "mental_health", "peer_influence"}
        /\ \A f \in DOMAIN prediction.factor_scores :
              0 <= prediction.factor_scores[f] /\ prediction.factor_scores[f] <= One
        /\ prediction.factor_scores["attendance"] =
              Norm(prediction.profile.attendance, 600, 1000)
        /\ prediction.factor_scores["study_hours"] =
              Norm(prediction.profile.study_hours, 10, 80)
        /\ prediction.factor_scores["sleep_hours"] =
              Norm(prediction.profile.sleep_hours, 40, 100)

\* C8 witness: a prediction whose three continuous inputs lie strictly
\* inside their normalisation bounds.
C8_Witness ==
    /\ Predicted
    /\ \A f \in {"attendance", "study_hours", "sleep_hours"} :
          0 < prediction.factor_scores[f] /\ prediction.factor_scores[f] < One

\* C9: for two valid profiles that differ only in attendance, a1 <= a2, the
\* attendance score of the first is <= that of the second, and the
\* success_probability does not decrease, however an exact half of the
\* second total is rounded.  (Equal factor scores are the same computation.)
C9_MonotonicInAttendance ==
    Predicted =>
        \A a2 \in AttendanceValues :
            LET p2 == [prediction.profile EXCEPT !.attendance = a2]
                fs2 == calculate_factor_scores(p2)
            IN  (a2 >= prediction.profile.attendance /\ ValidProfile(p2)) =>
                    /\ fs2["attendance"] >= prediction.factor_scores["attendance"]
                    /\ fs2 # prediction.factor_scores =>
                          \A sp2 \in round4_outcomes(total_score(fs2, self_weights)) :
                              sp2 >= prediction.success_probability

\* C9 witness: a predicted profile whose attendance lies inside (60, 100) and
\* below another attendance of the model that scores strictly higher.
C9_Witness ==
    /\ Predicted
    /\ prediction.factor_scores["attendance"] > 0
    /\ \E a2 \in AttendanceValues :
          /\ a2 > prediction.profile.attendance
          /\ calculate_factor_scores([prediction.profile EXCEPT !.attendance = a2])
                ["attendance"] > prediction.factor_scores["attendance"]

\* the position of a factor in the insertion order of factor_scores
Position(factor) == CHOOSE i \in 1..Len(FactorOrder) : FactorOrder[i] = factor

\* the weight the table gives a factor
TableWeight(factor) ==
    LET c == CHOOSE c \in DOMAIN WEIGHTS : factor \in DOMAIN WEIGHTS[c]
    IN  WEIGHTS[c][factor]

\* C10: identify_key_factors returns at most 3 triples (factor, score,
\* impact) with impact = score * weight_of(factor), sorted by impact
\* descending, holding the highest-impact factors of the input, and factors
\* with equal impact appear in the insertion order of factor_scores.
C10_KeyFactors ==
    Predicted =>
        LET top == prediction.top_factors
            listed == {top[i][1] : i \in 1..Len(top)}
        IN  /\ Len(top) <= 3
            /\ Cardinality(listed) = Len(top)
            /\ \A i \in 1..Len(top) :
                  /\ top[i][1] \in Factors
                  /\ top[i][2] = prediction.factor_scores[top[i][1]]
                  /\ top[i][3] \div 3 = top[i][2] * TableWeight(top[i][1])
            /\ \A i, j \in 1..Len(top) : i < j => top[i][3] >= top[j][3]
            /\ \A i \in 1..Len(top) : \A f \in Factors \ listed :
                  top[i][3] >= impact_of(f, prediction.factor_scores[f], TableWeight(f))
            /\ \A i, j \in 1..Len(top) :
                  (i < j /\ top[i][3] = top[j][3]) => Position(top[i][1]) < Position(top[j][1])
            /\ \A i \in 1..Len(top) : \A f \in Factors \ listed :
                  top[i][3] = impact_of(f, prediction.factor_scores[f], TableWeight(f))
                      => Position(top[i][1]) < Position(f)

\* C10 witness: a prediction whose top factors hold two entries of equal
\* impact from different operands, and leave out a factor whose impact equals
\* that of the last entry.
C10_Witness ==
    /\ Predicted
    /\ Len(prediction.top_factors) = 3
    /\ \E i, j \in 1..3 :
          /\ i < j
          /\ prediction.top_factors[i][3] = prediction.top_factors[j][3]
          /\ prediction.top_factors[i][2] # prediction.top_factors[j][2]
    /\ \E f \in Factors \ {prediction.top_factors[i][1] : i \in 1..3} :
          impact_of(f, prediction.factor_scores[f], TableWeight(f))
              = prediction.top_factors[3][3]

(***************************************************************************)
(* The intervention simulator.                                             *)
(***************************************************************************)
Simulated == simulated # None

\* the exact sum of min(1.0, score + delta) * weight over the factors, in
\* units of 1/(One*100)
ExpectedImpact(factor_scores, improvements) ==
    SumOver([f \in Factors |->
                LET new == factor_scores[f]
                           + (IF f \in DOMAIN improvements THEN improvements[f] ELSE 0)
                IN  (IF new > One THEN One ELSE new) * TableWeight(f)],
            Factors)

\* C11: for the factor scores of a prediction,
\* estimate_intervention_impact(scores, {}) with an empty improvements
\* dictionary equals calculate_weighted_score(scores).
C11_EmptyImprovementsIsAggregate ==
    Simulated /\ DOMAIN sim_improvements = {}
        => simulated.new_score = calculate_weighted_score(prediction.factor_scores)

\* C12: for factor scores in [0, 1] and improvements of any magnitude, the
\* result of estimate_intervention_impact is at most 1.0.
C12_ImpactAtMostOne ==
    Simulated => simulated.new_score <= Scale4

\* C12 witness: a call with a delta above 1.0 whose result is 1.0.
C12_Witness ==
    /\ Simulated
    /\ \E f \in DOMAIN sim_improvements : sim_improvements[f] > One
    /\ simulated.new_score = Scale4

\* C13: a call of estimate_intervention_impact leaves the factor_scores
\* dictionary, the improvements dictionary and the WEIGHTS table as they
\* were.
C13_ImpactIsPure ==
    [][simulated' # simulated =>
          /\ prediction' = prediction
          /\ sim_improvements' = sim_improvements
          /\ self_weights' = self_weights]_vars

\* C13 witness: a call with a nonempty improvements dictionary has returned.
C13_Witness ==
    /\ Simulated
    /\ DOMAIN sim_improvements # {}
    /\ simulated.new_score # simulated.current_score

\* C14: estimate_intervention_impact returns the sum over the factors of
\* min(1.0, factor_scores[f] + delta(f)) * weight(f), delta(f) = 0 for a
\* factor without an entry, rounded to 4 decimals; nothing is clamped from
\* below.
C14_ImpactFormula ==
    Simulated =>
        simulated.new_score
            \in round4_outcomes(ExpectedImpact(prediction.factor_scores, sim_improvements))

\* C14 witness: a negative delta brings the result below the aggregate of the
\* unmodified scores, and below 0.
C14_Witness ==
    /\ Simulated
    /\ \E f \in DOMAIN sim_improvements : sim_improvements[f] < 0
    /\ simulated.new_score < simulated.current_score
    /\ simulated.new_score < 0

(***************************************************************************)
(* Validation of a raw record.                                             *)
(***************************************************************************)
Validated == validation # None

AllPresent(record) == Range(required_fields) \subseteq DOMAIN record

\* the upper end of the range of a numeric field
Upper(field) == IF field = "attendance" THEN T(100) ELSE T(24)

\* the numeric fields of a record with all fields whose value is outside the
\* range
OutOfRange(record) ==
    {f \in NumericFields : record[f] < 0 \/ record[f] > Upper(f)}

\* the message that names a numeric field
RangeMessage(field) ==
    CASE field = "attendance" -> AttendanceMessage
      [] field = "study_hours" -> StudyHoursMessage
      [] field = "sleep_hours" -> SleepHoursMessage

\* the categorical fields of a record with all fields whose value is not a
\* key of the field's score mapping
NotInEnum(record) ==
    {f \in DOMAIN SCORE_MAPPINGS : record[f] \notin DOMAIN SCORE_MAPPINGS[f]}

\* C15: validate_student_inputs fails whenever one of the nine required keys
\* is absent from the raw record, and its message names a field that is
\* missing.
C15_MissingFieldFails ==
    Validated /\ ~AllPresent(raw) =>
        /\ validation.is_valid = FALSE
        /\ validation.error_message
               \in {MissingMessage(f) : f \in Range(required_fields) \ DOMAIN raw}

\* C15 witness: a record lacking two fields, with its first field present,
\* has been rejected.
C15_Witness ==
    /\ Validated
    /\ Cardinality(Range(required_fields) \ DOMAIN raw) = 2
    /\ required_fields[1] \in DOMAIN raw
    /\ validation.is_valid = FALSE

\* C16: with all nine fields present, validate_student_inputs fails with a
\* range message exactly when attendance is outside [0, 100], study_hours
\* outside [0, 24] or sleep_hours outside [0, 24] (bounds included), the
\* message names a field that is out of range, and attendance = 150 is
\* rejected with the attendance message.
C16_RangeErrors ==
    Validated /\ AllPresent(raw) =>
        /\ OutOfRange(raw) # {} <=>
              validation.error_message \in {RangeMessage(f) : f \in NumericFields}
        /\ OutOfRange(raw) # {} =>
              /\ validation.is_valid = FALSE
              /\ validation.error_message \in {RangeMessage(f) : f \in OutOfRange(raw)}
        /\ raw["attendance"] = T(150) => validation.error_message = AttendanceMessage

\* C16 witness: a complete record with attendance = 150 and another numeric
\* field out of range has been rejected.
C16_Witness ==
    /\ Validated
    /\ AllPresent(raw)
    /\ raw["attendance"] = T(150)
    /\ Cardinality(OutOfRange(raw)) = 2
    /\ validation.is_valid = FALSE

\* C17: with all fields present and the numeric fields in range,
\* validate_student_inputs fails exactly when the value of some categorical
\* field is not one of the field's enum members (compared case-sensitively),
\* the message then lists all valid options of an offending field, and
\* otherwise the result is (True, None).
C17_CategoricalErrors ==
    Validated /\ AllPresent(raw) /\ OutOfRange(raw) = {} =>
        IF NotInEnum(raw) # {}
        THEN /\ validation.is_valid = FALSE
             /\ validation.error_message
                    \in {OptionsMessage(f, valid_values[f]) : f \in NotInEnum(raw)}
             /\ Range(validation.error_message.valid_options)
                    = DOMAIN SCORE_MAPPINGS[validation.error_message.field]
        ELSE validation = [is_valid |-> TRUE, error_message |-> None]

\* C17 witness: a complete record in range has been rejected for an option
\* written in lower case.
C17_Witness ==
    /\ Validated
    /\ AllPresent(raw)
    /\ OutOfRange(raw) = {}
    /\ \E f \in NotInEnum(raw) : raw[f] = InvalidValue(f, 1)
    /\ validation.is_valid = FALSE

\* C18 as claimed: create_student_profile returns (profile, None), the
\* profile holding the input, when validate_student_inputs succeeds on the
\* same record, and (None, error) when it fails; a profile that is returned
\* holds no out-of-range and no non-enum value.
C18_ProfileIffValid ==
    created # None =>
        /\ created.profile # None => validate_student_inputs(raw).is_valid
        /\ validate_student_inputs(raw).is_valid =>
              created = [profile |-> raw, error |-> None]
        /\ ~validate_student_inputs(raw).is_valid =>
              created = [profile |-> None,
                         error |-> validate_student_inputs(raw).error_message]
        /\ created.profile # None => ValidProfile(created.profile)

\* C18 amended: as C18, but (profile, None) is returned when validation
\* succeeds and the record has no key besides the nine fields; on a valid
\* record with another key the result is (None, error).
C18_ProfileIffValidAmended ==
    created # None =>
        /\ created.profile # None => validate_student_inputs(raw).is_valid
        /\ validate_student_inputs(raw).is_valid =>
              IF DOMAIN raw = Range(required_fields)
              THEN created = [profile |-> raw, error |-> None]
              ELSE created.profile = None /\ created.error # None
        /\ ~validate_student_inputs(raw).is_valid =>
              created = [profile |-> None,
                         error |-> validate_student_inputs(raw).error_message]
        /\ created.profile # None => ValidProfile(created.profile)

\* C18 witness: a profile has been returned for a record, and validation of
\* the same record has succeeded.
C18_Witness ==
    /\ created # None
    /\ Validated
    /\ validation.is_valid
    /\ created.profile = raw

(***************************************************************************)
(* Sanitising a raw record.                                                *)
(***************************************************************************)
\* C19: sanitize_inputs is idempotent, sanitize_inputs(sanitize_inputs(x))
\* equals sanitize_inputs(x) for every record x it accepts, and it does not
\* modify the record passed to it.
C19_SanitizeIdempotent ==
    /\ [](resanitized # None => resanitized = sanitized)
    /\ [][raw' = raw]_vars

(***************************************************************************)
(* The anomaly check.                                                      *)
(***************************************************************************)
\* the five conditions, each with the warnings that report it
AnomalyConditions(p) ==
    <<[holds |-> p.attendance < T(70),
       reports |-> {LowAttendance(p.attendance)}],
      [holds |-> p.study_hours < T(2) \/ p.study_hours > T(10),
       reports |-> {VeryLowStudyHours(p.study_hours), VeryHighStudyHours(p.study_hours)}],
      [holds |-> p.sleep_hours < T(6) \/ p.sleep_hours > T(12),
       reports |-> {InsufficientSleep(p.sleep_hours), ExcessiveSleep(p.sleep_hours)}],
      [holds |-> p.mental_health \in {"Poor", "Fair"},
       reports |-> {MentalHealthConcerns}],
      [holds |-> p.financial_status = "Struggling",
       reports |-> {FinancialStruggles}]>>

\* C20: check_for_anomalies returns one warning for each of the five
\* conditions that holds (attendance < 70; study_hours < 2 or > 10;
\* sleep_hours < 6 or > 12; mental_health Poor or Fair; financial_status
\* Struggling) and no other warning: the list has 0 to 5 entries and is
\* empty exactly when no condition holds.
C20_OneWarningPerCondition ==
    warnings # None =>
        LET conditions == AnomalyConditions(profile)
            holding == {k \in 1..Len(conditions) : conditions[k].holds}
            list == warnings.anomalies
        IN  /\ \A k \in holding :
                  Cardinality({i \in 1..Len(list) : list[i] \in conditions[k].reports}) = 1
            /\ \A i \in 1..Len(list) : \E k \in holding : list[i] \in conditions[k].reports
            /\ Len(list) = Cardinality(holding)
            /\ Len(list) <= 5
            /\ list = <<>> <=> holding = {}

\* C20 witness: a profile for which all five conditions hold has five
\* warnings.
C20_Witness ==
    /\ warnings # None
    /\ Len(warnings.anomalies) = 5
    /\ profile.study_hours > T(10)

(***************************************************************************)
(* The recommendations.                                                    *)
(***************************************************************************)
Rendered == rendered # None

\* the factors of the prediction with score < 0.5
LowSet == {f \in Factors : 2 * prediction.factor_scores[f] < One}

\* the sections of the page, in their order
Sections == SelectSeq(rendered.page, LAMBDA e : e.element = "section")

\* C21: guidance is given for factors with score < 0.5 only, for at most 3
\* of them, in the order of ascending score, and when more than 3 factors
\* are below 0.5 the 3 shown are the 3 with the lowest scores.
C21_WorstThreeFirst ==
    Rendered =>
        /\ Len(Sections) <= 3
        /\ \A i \in 1..Len(Sections) : Sections[i].factor \in LowSet
        /\ \A i, j \in 1..Len(Sections) :
              i < j => prediction.factor_scores[Sections[i].factor]
                           <= prediction.factor_scores[Sections[j].factor]
        /\ \A g \in LowSet \ {Sections[i].factor : i \in 1..Len(Sections)} :
              \A i \in 1..Len(Sections) :
                  prediction.factor_scores[Sections[i].factor]
                      <= prediction.factor_scores[g]

\* C22: when no factor score is below 0.5 the page holds the one 'all
\* acceptable' element and no guidance; when some factor score is below 0.5
\* it holds guidance for at least one factor and not that element.
C22_NoActionNeeded ==
    Rendered =>
        IF LowSet = {}
        THEN rendered.page = <<AllAcceptable>>
        ELSE /\ Len(Sections) >= 1
             /\ \A i \in 1..Len(rendered.page) : rendered.page[i] # AllAcceptable

\* C22 witness: a page for a prediction whose lowest factor score is 0.5.
C22_Witness ==
    /\ Rendered
    /\ LowSet = {}
    /\ \E f \in Factors : 2 * prediction.factor_scores[f] = One

\* C29: the bucket read for a factor that is shown and is in the table is
\* always 'low', so no lookup fails, sleep_hours included, and a factor that
\* is not in the table gets exactly three generic lines.
C29_BucketAlwaysLow ==
    Rendered =>
        \A i \in 1..Len(rendered.page) :
            /\ rendered.page[i].element # "KeyError"
            /\ rendered.page[i].element = "section" =>
                  IF rendered.page[i].factor \in DOMAIN RECOMMENDATIONS
                  THEN /\ rendered.page[i].bucket = "low"
                       /\ rendered.page[i].lines
                              = RECOMMENDATIONS[rendered.page[i].factor].low
                  ELSE /\ Len(rendered.page[i].lines) = 3
                       /\ rendered.page[i].lines = GenericLines(rendered.page[i].factor)

\* C29 witness: a page with the section of sleep_hours and the section of a
\* factor that is not in the table.
C29_Witness ==
    /\ Rendered
    /\ \E i \in 1..Len(Sections) : Sections[i].factor = "sleep_hours"
    /\ \E i \in 1..Len(Sections) : Sections[i].factor \notin DOMAIN RECOMMENDATIONS

(***************************************************************************)
(* The session of app.py.                                                  *)
(***************************************************************************)
InSession == session_state # None /\ rendered # None

\* C23: after any sequence of predictions recorded in the session the
\* history holds at most 10 entries.
C23_HistoryAtMostTen ==
    InSession => Len(session_state.prediction_history) <= HistoryLimit

\* C25: app.py's predict and models/predictor.py's predict return the same
\* success_probability and the same risk label, colour and description for
\* the profile of every recorded prediction.
C25_PredictorsAgree ==
    InSession =>
        \A i \in 1..Len(session_state.prediction_history) :
            LET app == session_state.prediction_history[i]
                model == predict(app.profile)
            IN  /\ app.success_probability = model.success_probability
                /\ app.risk_assessment.color = model.risk_assessment.color
                /\ app.risk_assessment.description = model.risk_assessment.description
                /\ app.risk_assessment.label = model.risk_assessment.label

\* C26: current_prediction is None exactly when the history is empty and is
\* otherwise the last entry of the history, and a click with no valid
\* profile changes neither of the two.
C26_CurrentIsLast ==
    /\ [](InSession =>
            IF session_state.prediction_history = <<>>
            THEN session_state.current_prediction = None
            ELSE session_state.current_prediction
                     = session_state.prediction_history[
                           Len(session_state.prediction_history)])
    /\ [][(InSession /\ profile = None /\ rendered'.clicks # rendered.clicks)
             => session_state' = session_state]_vars

\* C26 witness: clicks with a profile and a later click without one.
C26_Witness ==
    /\ InSession
    /\ profile = None
    /\ Len(session_state.prediction_history) >= 2
    /\ rendered.clicks > Len(session_state.prediction_history)

(***************************************************************************)
(* The history of utils/helpers.py.                                        *)
(***************************************************************************)
Saved == session_state # None /\ "prediction_history" \in DOMAIN session_state

\* C27: after any sequence of save_prediction_to_history calls the entries
\* of the history have pairwise distinct ids.
C27_DistinctIds ==
    Saved =>
        \A i, j \in 1..Len(session_state.prediction_history) :
            i # j => session_state.prediction_history[i].id
                         # session_state.prediction_history[j].id

(***************************************************************************)
(* The order of the validation errors.                                     *)
(***************************************************************************)
\* the fields in the order in which their violations are looked for: all
\* nine for a missing key, the first three for the range, the last six for
\* the options
ViolationOrder ==
    <<"attendance", "study_hours", "sleep_hours", "family_support", "extracurricular",
      "previous_grades", "financial_status", "mental_health", "peer_influence">>

\* the messages of all violations of a record, in that order
Violations(record) ==
    LET missing == SelectSeq(ViolationOrder, LAMBDA f : f \notin DOMAIN record)
        range == SelectSeq(SubSeq(ViolationOrder, 1, 3),
                     LAMBDA f : f \in DOMAIN record
                                /\ (record[f] < 0 \/ record[f] > Upper(f)))
        options == SelectSeq(SubSeq(ViolationOrder, 4, 9),
                       LAMBDA f : f \in DOMAIN record
                                  /\ record[f] \notin DOMAIN SCORE_MAPPINGS[f])
    IN  [i \in 1..Len(missing) |-> MissingMessage(missing[i])]
        \o [i \in 1..Len(range) |-> RangeMessage(range[i])]
        \o [i \in 1..Len(options) |-> OptionsMessage(options[i], valid_values[options[i]])]

\* C30: validate_student_inputs reports one error, the first violation in
\* the order: missing fields, then the ranges of attendance, study_hours and
\* sleep_hours, then the options of the six categorical fields; a record
\* without a violation is valid.
C30_FirstViolationOnly ==
    Validated =>
        IF Violations(raw) = <<>>
        THEN validation = [is_valid |-> TRUE, error_message |-> None]
        ELSE validation = [is_valid |-> FALSE, error_message |-> Head(Violations(raw))]

\* C30 witness: a record with a value out of its range and a value that is
\* no option has been rejected with the message of the range.
C30_Witness ==
    /\ Validated
    /\ AllPresent(raw)
    /\ OutOfRange(raw) # {}
    /\ NotInEnum(raw) # {}
    /\ validation.error_message \in {RangeMessage(f) : f \in NumericFields}

(***************************************************************************)
(* The configuration.                                                      *)
(***************************************************************************)
Created == created # None /\ created.profile # None

\* the weight categories that hold a factor
CategoriesOf(factor) == {c \in DOMAIN self_weights : factor \in DOMAIN self_weights[c]}

\* C24: every option the validator accepts for a categorical field is a key
\* of the field's score mapping, so the lookup of a created profile's value
\* succeeds; every one of the nine factors is in exactly one weight category
\* and its weight lookup gives a weight, not the fallback 0.
C24_ConfigurationIntegrity ==
    Created =>
        /\ \A field \in DOMAIN valid_values :
              Range(valid_values[field]) \subseteq DOMAIN SCORE_MAPPINGS[field]
        /\ \A field \in DOMAIN SCORE_MAPPINGS :
              created.profile[field] \in DOMAIN SCORE_MAPPINGS[field]
        /\ \A factor \in Factors : Cardinality(CategoriesOf(factor)) = 1
        /\ \A factor \in Factors : weight_of(factor) > 0

\* C24 witness: a profile with the last option of the two four-option
\* fields has been created.
C24_Witness ==
    /\ Created
    /\ created.profile.previous_grades = "Excellent"
    /\ created.profile.mental_health = "Excellent"

(***************************************************************************)
(* The smallest success probability.                                       *)
(***************************************************************************)
\* the weakest option of every categorical field, and every continuous input
\* at or below the lower end of its scoring range
AtTheFloor(p) ==
    /\ p.attendance <= T(60) /\ p.study_hours <= T(1) /\ p.sleep_hours <= T(4)
    /\ p.family_support = "Low" /\ p.extracurricular = "None"
    /\ p.previous_grades = "Poor" /\ p.financial_status = "Struggling"
    /\ p.mental_health = "Poor" /\ p.peer_influence = "Negative"

\* C28: the success probability of a prediction is positive; it is at least
\* 0.093, and is 0.093 for the weakest options with the continuous inputs at
\* or below their lower bounds; the relative improvement of the simulator
\* never divides by zero.
C28_ProbabilityPositive ==
    /\ prediction # None =>
          /\ prediction.success_probability > 0
          /\ prediction.success_probability >= 930
          /\ AtTheFloor(profile) => prediction.success_probability = 930
    /\ (simulated # None /\ "improvement_pct" \in DOMAIN simulated) =>
          /\ "raised" \notin DOMAIN simulated.improvement_pct
          /\ simulated.improvement_pct.denominator > 0

\* C28 witness: the simulator has run on a prediction of 0.093.
C28_Witness ==
    /\ prediction # None
    /\ AtTheFloor(profile)
    /\ profile.attendance = T(60)
    /\ prediction.success_probability = 930
    /\ simulated # None
    /\ "improvement_pct" \in DOMAIN simulated

====
